---- MODULE Spec2Model ----
(***************************************************************************)
(* Model of app.py: a Flask application doing insert / remove / update /   *)
(* read on a CSV file of student records, and an /average endpoint that    *)
(* fans the records out to worker threads (calculate_avg) and collects     *)
(* their results through a queue.                                          *)
(*                                                                         *)
(* Text is modelled by strings.  Numbers obtained with float() and the     *)
(* averages derived from them are modelled in hundredths (7.5 is 750), so  *)
(* that round(x, 2) is an integer rounding.                                *)
(***************************************************************************)
EXTENDS Integers, Sequences, FiniteSets, TLC

VARIABLES
    csv_file,       \* the data lines of the CSV file, each a tuple in header order
    thread_size,    \* config["thread_size"]
    request,        \* the request being / last handled: [op, data]
    status,         \* HTTP status of the last response (0: none yet)
    message,        \* the 'error' / 'message' text of the last response
    payload,        \* the JSON list / object of the last response, as a sequence
    avg_pc,         \* position of the average() handler
    records,        \* average(): the list returned by read_csv()
    num_thread,     \* average(): number of workers to launch
    threads,        \* average(): the launched workers, in launch order
    result_queue,   \* average(): queue.Queue(), oldest item first
    joined,         \* average(): number of threads already joined
    handlers        \* the request handlers running concurrently: [pc, op, data, row, status]

vars == <<csv_file, thread_size, request, status, message, payload,
          avg_pc, records, num_thread, threads, result_queue, joined, handlers>>

avg_vars == <<avg_pc, records, num_thread, threads, result_queue, joined>>

----------------------------------------------------------------------------
(* Bounds of the model *)

MaxRoll == 3          \* roll numbers "1" .. "MaxRoll"
MaxAvgRecords == 4    \* /average is run on stores of 0 .. MaxAvgRecords records
MaxThreadSize == 3    \* thread_size ranges over 1 .. MaxThreadSize
MaxChunkLen == 2      \* longest chunk handed to calculate_avg on its own
MaxConcRecords == 2   \* concurrent requests start on stores of 0 .. MaxConcRecords records

----------------------------------------------------------------------------
(* Data *)

csv_header == <<"RollNo", "Name", "English", "Maths", "Science">>

HeaderFields == {csv_header[k] : k \in 1..Len(csv_header)}

ExtraField == "Grade"

RollNos == {ToString(n) : n \in 1..MaxRoll}

\* the forms and JSON objects of the model are restrictions of these: complete
\* records, and records with one more field
Records ==
    [RollNo : RollNos, Name : {"Ann"}, English : {"70", "x"},
     Maths : {"80"}, Science : {"91"}]

WithExtra == [RollNo : RollNos, Name : {"Ann"}, English : {"70"},
              Maths : {"80"}, Science : {"91"}, Grade : {"A"}]

Restrict(d, D) == [f \in D |-> d[f]]

\* request.form.to_dict() of an insert: complete, with an extra field, or with
\* a field missing
InsertForms ==
    Records \cup WithExtra
    \cup {Restrict(d, HeaderFields \ {"Science"}) : d \in WithExtra}
    \cup {Restrict(d, HeaderFields \ {"RollNo"}) : d \in WithExtra}

\* request.json of an update: complete, partial, with an extra field, or without
\* RollNo
UpdateBodies ==
    Records
    \cup {Restrict(d, {"RollNo", "English"}) : d \in Records}
    \cup {Restrict(d, {"RollNo"}) : d \in Records}
    \cup {Restrict(d, {"RollNo", "Science", ExtraField}) : d \in WithExtra}
    \cup {Restrict(d, {"English"}) : d \in WithExtra}

ReadArgs == RollNos \cup {""}

----------------------------------------------------------------------------
(* The CSV file *)

\* the column of each header field
Column == [f \in HeaderFields |-> CHOOSE k \in 1..Len(csv_header) : csv_header[k] = f]

\* csv.DictReader: one dictionary per data line, keyed by the header
read_csv ==
    [n \in 1..Len(csv_file) |-> [f \in HeaderFields |-> csv_file[n][Column[f]]]]

\* DictWriter._dict_to_list: a key outside fieldnames raises ValueError
Writable(row) == DOMAIN row \subseteq HeaderFields

\* the line DictWriter emits for a dictionary: header order, restval ""
Line(row) ==
    [k \in 1..Len(csv_header) |->
        IF csv_header[k] \in DOMAIN row THEN row[csv_header[k]] ELSE ""]

\* mutant: the last row is never written
write_csv_drops_last(row) ==
    [ok |-> \A n \in 1..Len(row) : Writable(row[n]),
     file |-> [n \in 1..(Len(row) - 1) |-> Line(row[n])]]

\* write_csv: the file is truncated, then the rows are written one by one; the
\* first row that is not writable raises, leaving the rows before it in the file
write_csv(row) ==
    LET bad == {n \in 1..Len(row) : ~Writable(row[n])}
        stop == IF bad = {} THEN Len(row)
                ELSE (CHOOSE n \in bad : \A m \in bad : n <= m) - 1
    IN [ok |-> bad = {}, file |-> [n \in 1..stop |-> Line(row[n])]]

----------------------------------------------------------------------------
(* Responses *)

Respond(st, msg, body) ==
    /\ status' = st
    /\ message' = msg
    /\ payload' = body

----------------------------------------------------------------------------
(* CRUD handlers *)

\* mutant: only the key field is required
OnlyRollNoPresent(data) == "RollNo" \in DOMAIN data

AllFieldsPresent(data) == \A k \in 1..Len(csv_header) : csv_header[k] \in DOMAIN data

\* mutant: only the first row is compared
RollNoExistsFirstRow(row, rollno) == row # <<>> /\ row[1]["RollNo"] = rollno

RollNoExists(row, rollno) == \E n \in 1..Len(row) : row[n]["RollNo"] = rollno

insert_data(data) ==
    /\ UNCHANGED handlers
    /\ request' = [op |-> "insert", data |-> data]
    /\ UNCHANGED <<thread_size, avg_vars>>
    /\ IF ~AllFieldsPresent(data)
       THEN /\ Respond(400, "Missing required fields", <<>>)
            /\ UNCHANGED csv_file
       ELSE LET row == read_csv IN
            IF RollNoExists(row, data["RollNo"])
            THEN /\ Respond(400, "Record with the RollNo already exists", <<>>)
                 /\ UNCHANGED csv_file
            ELSE LET w == write_csv(Append(row, data)) IN
                 /\ Len(row) < MaxRoll
                 /\ csv_file' = w.file
                 /\ IF w.ok
                    THEN Respond(201, "Record inserted successfully", <<>>)
                    ELSE Respond(500, "Failed to write record", <<>>)

\* mutant: the comparison is inverted
FilterKeepsMatch(rows, rollno) == SelectSeq(rows, LAMBDA r : r["RollNo"] = rollno)

Filter(rows, rollno) == SelectSeq(rows, LAMBDA r : r["RollNo"] # rollno)

remove_data(rollno) ==
    /\ UNCHANGED handlers
    /\ request' = [op |-> "remove", data |-> [RollNo |-> rollno]]
    /\ UNCHANGED <<thread_size, avg_vars>>
    /\ LET recs == read_csv
           filtered_records == Filter(recs, rollno)
       IN IF Len(recs) = Len(filtered_records)
          THEN /\ Respond(404, "Record not found", <<>>)
               /\ UNCHANGED csv_file
          ELSE LET w == write_csv(filtered_records) IN
               /\ csv_file' = w.file
               /\ IF w.ok
                  THEN Respond(200, "Record deleted successfully", <<>>)
                  ELSE Respond(500, "Failed to delete record", <<>>)

\* mutant: the row is replaced by the request instead of updated with it
DictUpdateReplaces(row, data) == data

\* dict.update
DictUpdate(row, data) ==
    [f \in DOMAIN row \cup DOMAIN data |-> IF f \in DOMAIN data THEN data[f] ELSE row[f]]

\* mutant: the RollNo test is dropped
MatchesEveryRow(row, data) == "RollNo" \in DOMAIN row

Matches(row, data) == row["RollNo"] = data["RollNo"]

UpdateRows(rows, data) ==
    [n \in 1..Len(rows) |->
        IF Matches(rows[n], data) THEN DictUpdate(rows[n], data) ELSE rows[n]]

update_data(data) ==
    /\ UNCHANGED handlers
    /\ request' = [op |-> "update", data |-> data]
    /\ UNCHANGED <<thread_size, avg_vars>>
    /\ IF "RollNo" \notin DOMAIN data
       THEN \* data["RollNo"] raises KeyError: unhandled, Flask answers 500
            /\ Respond(500, "Internal Server Error", <<>>)
            /\ UNCHANGED csv_file
       ELSE LET recs == read_csv
                updated == \E n \in 1..Len(recs) : Matches(recs[n], data)
            IN IF ~updated
               THEN /\ Respond(404, "Record not found", <<>>)
                    /\ UNCHANGED csv_file
               ELSE LET w == write_csv(UpdateRows(recs, data)) IN
                    /\ csv_file' = w.file
                    /\ IF w.ok
                       THEN Respond(200, "Record updated successfully", <<>>)
                       ELSE Respond(500, "Failed to update record", <<>>)

\* mutant: the first row is returned whenever some row matches
FirstMatchFirstRow(rows, rollno) == IF RollNoExists(rows, rollno) THEN 1 ELSE 0

\* index of the first row with the requested RollNo, 0 if there is none
FirstMatch(rows, rollno) ==
    IF RollNoExists(rows, rollno)
    THEN CHOOSE n \in 1..Len(rows) :
            /\ rows[n]["RollNo"] = rollno
            /\ \A m \in 1..(n - 1) : rows[m]["RollNo"] # rollno
    ELSE 0

read_data(rollno) ==
    /\ UNCHANGED handlers
    /\ request' = [op |-> "read", data |-> [RollNo |-> rollno]]
    /\ UNCHANGED <<csv_file, thread_size, avg_vars>>
    /\ IF rollno = ""
       THEN Respond(200, "read.html", <<>>)
       ELSE LET recs == read_csv
                n == FirstMatch(recs, rollno)
            IN IF n # 0
               THEN Respond(200, "", <<recs[n]>>)
               ELSE Respond(404, "Record not found", <<>>)

----------------------------------------------------------------------------
(* calculate_avg *)

\* float(text) in hundredths, for the texts float() accepts
FloatTable ==
    ("70" :> 7000) @@ ("80" :> 8000) @@ ("90" :> 9000) @@ ("91" :> 9100) @@
    ("7.5" :> 750) @@ ("-5" :> -500) @@ (" 8 " :> 800)

\* float(text) raises ValueError for any other text
IsFloat(text) == text \in DOMAIN FloatTable

\* mutant: the quotient is truncated instead of rounded
RoundDivFloor(num, den) == num \div den

\* num / den rounded to the nearest integer, ties to even (den > 0)
RoundDiv(num, den) ==
    LET q == num \div den
        r == num % den
    IN IF 2 * r < den THEN q
       ELSE IF 2 * r > den THEN q + 1
       ELSE IF q % 2 = 0 THEN q ELSE q + 1

\* the try block: avg = round((english + maths + science) / 3, 2), 0 on error
AvgOf(row) ==
    IF IsFloat(row["English"]) /\ IsFloat(row["Maths"]) /\ IsFloat(row["Science"])
    THEN RoundDiv(FloatTable[row["English"]] + FloatTable[row["Maths"]]
                    + FloatTable[row["Science"]], 3)
    ELSE 0

Entry(row) == [RollNo |-> row["RollNo"], Name |-> row["Name"], Average |-> AvgOf(row)]

\* mutant: a record whose marks do not parse ends the loop
student_avg_stops_at_error(recs) ==
    LET bad == {n \in 1..Len(recs) :
                    ~(IsFloat(recs[n]["English"]) /\ IsFloat(recs[n]["Maths"])
                        /\ IsFloat(recs[n]["Science"]))}
        stop == IF bad = {} THEN Len(recs)
                ELSE (CHOOSE n \in bad : \A m \in bad : n <= m) - 1
    IN [n \in 1..stop |-> Entry(recs[n])]

\* the list calculate_avg puts on the queue
student_avg(recs) == [n \in 1..Len(recs) |-> Entry(recs[n])]

----------------------------------------------------------------------------
(* average() *)

Min(a, b) == IF a <= b THEN a ELSE b

\* mutant: the number of chunks is rounded up instead
NumThreadCeil(num_records, record_per_thread) ==
    (num_records + record_per_thread - 1) \div record_per_thread

NumThread(num_records, record_per_thread) == num_records \div record_per_thread + 1

ChunkStart(i, record_per_thread) == i * record_per_thread

ChunkEnd(i, record_per_thread, num_records) ==
    Min(ChunkStart(i, record_per_thread) + record_per_thread, num_records)

\* the Python slice recs[start:end] for 0 <= start
Slice(recs, start, end) == SubSeq(recs, start + 1, Min(end, Len(recs)))

\* records = read_csv(); num_thread = num_records // record_per_thread + 1
average ==
    /\ UNCHANGED handlers
    /\ avg_pc = "idle"
    /\ request' = [op |-> "average", data |-> [RollNo |-> ""]]
    /\ Respond(0, "", <<>>)
    /\ records' = read_csv
    /\ num_thread' = NumThread(Len(read_csv), thread_size)
    /\ threads' = <<>>
    /\ result_queue' = <<>>
    /\ joined' = 0
    /\ avg_pc' = IF num_thread' = 0 THEN "collect" ELSE "start"
    /\ UNCHANGED <<csv_file, thread_size>>

\* one iteration of the loop that creates and starts the workers
start_thread ==
    /\ UNCHANGED handlers
    /\ avg_pc = "start"
    /\ LET i == Len(threads)
           record == Slice(records, ChunkStart(i, thread_size),
                           ChunkEnd(i, thread_size, Len(records)))
       IN threads' = Append(threads, [record |-> record, alive |-> TRUE, puts |-> 0])
    /\ avg_pc' = IF Len(threads') = num_thread THEN "join" ELSE "start"
    /\ UNCHANGED <<csv_file, thread_size, request, status, message, payload,
                   records, num_thread, result_queue, joined>>

\* a started worker runs calculate_avg(record, result_queue) and terminates
calculate_avg(t) ==
    /\ UNCHANGED handlers
    /\ t \in 1..Len(threads)
    /\ threads[t].alive
    /\ result_queue' = Append(result_queue, student_avg(threads[t].record))
    /\ threads' = [threads EXCEPT ![t].alive = FALSE, ![t].puts = @ + 1]
    /\ UNCHANGED <<csv_file, thread_size, request, status, message, payload,
                   avg_pc, records, num_thread, joined>>

\* mutant: join does not wait
JoinReturnsAtOnce(thread) == thread.alive \in BOOLEAN

\* thread.join() returns once the thread has terminated
JoinReturns(thread) == ~thread.alive

\* one iteration of the loop that joins the workers in launch order
join_thread ==
    /\ UNCHANGED handlers
    /\ avg_pc = "join"
    /\ JoinReturns(threads[joined + 1])
    /\ joined' = joined + 1
    /\ avg_pc' = IF joined' = Len(threads) THEN "collect" ELSE "join"
    /\ UNCHANGED <<csv_file, thread_size, request, status, message, payload,
                   records, num_thread, threads, result_queue>>

\* the while loop: its body ends with the return, so it runs at most once; with
\* an empty queue the function returns None, which Flask answers with 500
collect ==
    /\ UNCHANGED handlers
    /\ avg_pc = "collect"
    /\ IF result_queue # <<>>
       THEN /\ Respond(200, "", Head(result_queue))
            /\ result_queue' = Tail(result_queue)
       ELSE /\ Respond(500, "Internal Server Error", <<>>)
            /\ UNCHANGED result_queue
    /\ avg_pc' = "done"
    /\ UNCHANGED <<csv_file, thread_size, request, records, num_thread, threads, joined>>

----------------------------------------------------------------------------
(* The store under insert, remove, update and read requests, handled one   *)
(* after another from the empty store                                      *)

\* thread_size is read by average() only
Init ==
    /\ csv_file = <<>>
    /\ thread_size = 1
    /\ request = [op |-> "none", data |-> [RollNo |-> ""]]
    /\ status = 0
    /\ message = ""
    /\ payload = <<>>
    /\ avg_pc = "idle"
    /\ records = <<>>
    /\ num_thread = 0
    /\ threads = <<>>
    /\ result_queue = <<>>
    /\ joined = 0
    /\ handlers = <<>>

Next ==
    \/ \E data \in InsertForms : insert_data(data)
    \/ \E rollno \in RollNos : remove_data(rollno)
    \/ \E data \in UpdateBodies : update_data(data)
    \/ \E rollno \in ReadArgs : read_data(rollno)

Spec == Init /\ [][Next]_vars

----------------------------------------------------------------------------
(* One /average request, with its worker threads, on a store of n records *)

AvgLine(n) == <<ToString(n), "Ann", IF n = 2 THEN "x" ELSE "70", "80", "91">>

AvgStore(n) == [m \in 1..n |-> AvgLine(m)]

InitAverage ==
    /\ csv_file \in {AvgStore(n) : n \in 0..MaxAvgRecords}
    /\ thread_size \in 1..MaxThreadSize
    /\ request = [op |-> "none", data |-> [RollNo |-> ""]]
    /\ status = 0
    /\ message = ""
    /\ payload = <<>>
    /\ avg_pc = "idle"
    /\ records = <<>>
    /\ num_thread = 0
    /\ threads = <<>>
    /\ result_queue = <<>>
    /\ joined = 0
    /\ handlers = <<>>

NextAverage ==
    \/ average
    \/ start_thread
    \/ \E t \in 1..Len(threads) : calculate_avg(t)
    \/ join_thread
    \/ collect

SpecAverage == InitAverage /\ [][NextAverage]_vars

----------------------------------------------------------------------------
(* calculate_avg on its own: a chunk of records drawn from a set of mark texts *)

CalcMarks == {"70", "7.5", "-5", "x"}

CalcRecords ==
    [RollNo : {"1"}, Name : {"Ann"}, English : CalcMarks, Maths : CalcMarks,
     Science : CalcMarks]

\* the records of a chunk, numbered by their RollNo
Numbered(chunk) == [n \in 1..Len(chunk) |-> [chunk[n] EXCEPT !["RollNo"] = ToString(n)]]

CalcChunks == UNION {[1..n -> CalcRecords] : n \in 0..MaxChunkLen}

InitCalc ==
    /\ csv_file = <<>>
    /\ thread_size = 1
    /\ request = [op |-> "calculate_avg", data |-> [RollNo |-> ""]]
    /\ status = 0
    /\ message = ""
    /\ payload = <<>>
    /\ avg_pc = "join"
    /\ \E chunk \in CalcChunks : records = Numbered(chunk)
    /\ num_thread = 1
    /\ threads = <<[record |-> records, alive |-> TRUE, puts |-> 0]>>
    /\ result_queue = <<>>
    /\ joined = 0
    /\ handlers = <<>>

NextCalc == \E t \in 1..Len(threads) : calculate_avg(t)

SpecCalc == InitCalc /\ [][NextCalc]_vars

----------------------------------------------------------------------------
(* Properties.  The store is read directly from the lines of the file:       *)
(* column 1 of a line is its RollNo.                                         *)

StoredRollNos == {csv_file[n][1] : n \in 1..Len(csv_file)}

LineAsRecord(line) ==
    [RollNo |-> line[1], Name |-> line[2], English |-> line[3],
     Maths |-> line[4], Science |-> line[5]]

\* the line holding the five fields of a form
LineAsRecordInverse(data) ==
    <<data["RollNo"], data["Name"], data["English"], data["Maths"], data["Science"]>>

\* C1: an insert request that carries all five fields and whose RollNo is the
\* RollNo of a stored record is answered 400 and leaves the store as it was.
C1_InsertRejectsDuplicate ==
    [][(/\ request'.op = "insert"
        /\ HeaderFields \subseteq DOMAIN request'.data
        /\ request'.data["RollNo"] \in StoredRollNos)
       => (/\ status' = 400
           /\ message' = "Record with the RollNo already exists"
           /\ csv_file' = csv_file)]_vars

C1_Witness ==
    /\ request.op = "insert"
    /\ status = 400
    /\ message = "Record with the RollNo already exists"
    /\ Len(csv_file) >= 2
    /\ request.data["RollNo"] = csv_file[2][1]

\* C2: with requests handled one after another from an empty store, no two
\* stored records have the same RollNo.
C2_RollNoUnique ==
    \A n, m \in 1..Len(csv_file) : n # m => csv_file[n][1] # csv_file[m][1]

C2_Witness ==
    /\ request.op = "update"
    /\ status = 200
    /\ Len(csv_file) >= 3

\* C3: the response of average() holds exactly one entry (RollNo, Name, Average)
\* for each stored record.
C3_AverageCoversAllRecords ==
    (request.op = "average" /\ avg_pc = "done")
    => /\ status = 200
       /\ Len(payload) = Len(csv_file)
       /\ \A n \in 1..Len(csv_file) :
            Cardinality({m \in 1..Len(payload) :
                            /\ payload[m].RollNo = csv_file[n][1]
                            /\ payload[m].Name = csv_file[n][2]}) = 1

\* C4: an update request whose RollNo matches no stored record is answered
\* 404 'Record not found' and leaves the store as it was.
C4_UpdateNotFound ==
    [][(/\ request'.op = "update"
        /\ "RollNo" \in DOMAIN request'.data
        /\ request'.data["RollNo"] \notin StoredRollNos)
       => (/\ status' = 404
           /\ message' = "Record not found"
           /\ csv_file' = csv_file)]_vars

C4_Witness ==
    /\ request.op = "update"
    /\ status = 404
    /\ message = "Record not found"
    /\ Len(csv_file) >= 2
    /\ request.data["RollNo"] \notin StoredRollNos

\* C5: a remove request whose rollno matches no stored record is answered
\* 404 'Record not found' and leaves the store as it was.
C5_RemoveNotFound ==
    [][(/\ request'.op = "remove"
        /\ request'.data["RollNo"] \notin StoredRollNos)
       => (/\ status' = 404
           /\ message' = "Record not found"
           /\ csv_file' = csv_file)]_vars

C5_Witness ==
    /\ request.op = "remove"
    /\ status = 404
    /\ message = "Record not found"
    /\ Len(csv_file) >= 2
    /\ request.data["RollNo"] \notin StoredRollNos

\* the marks of a record are all numeric / their sum, in hundredths
NumericMarks(row) ==
    /\ row["English"] \in DOMAIN FloatTable
    /\ row["Maths"] \in DOMAIN FloatTable
    /\ row["Science"] \in DOMAIN FloatTable

MarkSum(row) ==
    FloatTable[row["English"]] + FloatTable[row["Maths"]] + FloatTable[row["Science"]]

Abs(x) == IF x < 0 THEN -x ELSE x

\* C6: the Average calculate_avg reports for a record with numeric marks is
\* (English + Maths + Science) / 3 rounded to two decimals, hence within half
\* a hundredth of the mean, and is exactly the mean when that has at most two
\* decimals.
C6_AverageIsMean ==
    \A q \in 1..Len(result_queue) :
        /\ Len(result_queue[q]) = Len(records)
        /\ \A n \in 1..Len(records) :
            NumericMarks(records[n]) =>
                LET a == result_queue[q][n].Average
                    sum == MarkSum(records[n])
                IN /\ 2 * Abs(3 * a - sum) <= 3
                   /\ (sum % 3 = 0 => 3 * a = sum)

C6_Witness ==
    /\ request.op = "calculate_avg"
    /\ Len(result_queue) = 1
    /\ \E n \in 1..Len(records) :
        /\ NumericMarks(records[n])
        /\ 3 * result_queue[1][n].Average = MarkSum(records[n]) + 1
    /\ \E n \in 1..Len(records) :
        /\ NumericMarks(records[n])
        /\ MarkSum(records[n]) < 0
        /\ 3 * result_queue[1][n].Average = MarkSum(records[n])

\* C7 as stated: an insert request that carries all five fields and whose
\* RollNo is not in the store is answered 201 and appends its record.
C7_InsertAppends_AsStated ==
    [][(/\ request'.op = "insert"
        /\ HeaderFields \subseteq DOMAIN request'.data
        /\ request'.data["RollNo"] \notin StoredRollNos)
       => (/\ status' = 201
           /\ csv_file' = Append(csv_file, LineAsRecordInverse(request'.data)))]_vars

\* C7 amended: an insert request that carries exactly the five fields and
\* whose RollNo is not in the store is answered 201, and the store afterwards
\* is the previous lines in their order followed by the new record.
C7_InsertAppends ==
    [][(/\ request'.op = "insert"
        /\ DOMAIN request'.data = HeaderFields
        /\ request'.data["RollNo"] \notin StoredRollNos)
       => (/\ status' = 201
           /\ csv_file' = Append(csv_file, LineAsRecordInverse(request'.data)))]_vars

C7_Witness ==
    /\ request.op = "insert"
    /\ status = 201
    /\ Len(csv_file) >= 3
    /\ csv_file[Len(csv_file)] = LineAsRecordInverse(request.data)

\* C8: read_data with a non-empty RollNo answers 200 with the stored record of
\* that RollNo when there is one and 404 'Record not found' otherwise, and
\* leaves the store as it was.
C8_ReadIsLookup ==
    [][(request'.op = "read" /\ request'.data["RollNo"] # "")
       => /\ csv_file' = csv_file
          /\ IF request'.data["RollNo"] \in StoredRollNos
             THEN /\ status' = 200
                  /\ Len(payload') = 1
                  /\ payload'[1]["RollNo"] = request'.data["RollNo"]
                  /\ \E n \in 1..Len(csv_file) : payload'[1] = LineAsRecord(csv_file[n])
             ELSE /\ status' = 404
                  /\ message' = "Record not found"]_vars

C8_Witness ==
    /\ request.op = "read"
    /\ status = 200
    /\ Len(csv_file) >= 2
    /\ payload = <<LineAsRecord(csv_file[2])>>

C8_WitnessNotFound ==
    /\ request.op = "read"
    /\ status = 404
    /\ csv_file # <<>>

\* the lists of a sequence of lists, concatenated in order
RECURSIVE Concat(_)
Concat(lists) == IF lists = <<>> THEN <<>> ELSE Head(lists) \o Concat(Tail(lists))

\* all workers of the running average() have been launched
AllLaunched == request.op = "average" /\ avg_pc \in {"join", "collect", "done"}

\* C9: for n records and chunk size k, average() launches n // k + 1 workers,
\* worker i receives records[i*k : min(i*k + k, n)], no slice is longer than
\* k, the slices concatenated in launch order are the record list, and the
\* last slice is empty when n is a multiple of k.
C9_ChunksPartitionRecords ==
    AllLaunched =>
        LET n == Len(records)
            k == thread_size
        IN /\ Len(threads) = n \div k + 1
           /\ \A t \in 1..Len(threads) :
                LET lo == (t - 1) * k
                    hi == IF lo + k <= n THEN lo + k ELSE n
                IN /\ threads[t].record = [m \in 1..(hi - lo) |-> records[lo + m]]
                   /\ Len(threads[t].record) <= k
           /\ Concat([t \in 1..Len(threads) |-> threads[t].record]) = records
           /\ (n % k = 0 => threads[Len(threads)].record = <<>>)

C9_Witness ==
    /\ AllLaunched
    /\ thread_size = 2
    /\ Len(records) = 3
    /\ Len(threads) = 2
    /\ Len(threads[2].record) = 1

C9_WitnessMultiple ==
    /\ AllLaunched
    /\ thread_size = 2
    /\ Len(records) = 2
    /\ threads[2].record = <<>>

\* the workers that have terminated
Terminated == {t \in 1..Len(threads) : ~threads[t].alive}

\* C10: when the handler is about to take its first item from the queue, every
\* launched worker has terminated and has put exactly one item, and the queue
\* holds as many items as workers were launched; before that, every item put
\* is still in the queue.
C10_FanInAfterAllWorkers ==
    /\ avg_pc = "collect" =>
        /\ Len(threads) = num_thread
        /\ Terminated = 1..num_thread
        /\ \A t \in 1..Len(threads) : threads[t].puts = 1
        /\ Len(result_queue) = num_thread
    /\ avg_pc \in {"start", "join"} =>
        /\ Len(result_queue) = Cardinality(Terminated)
        /\ \A t \in 1..Len(threads) : threads[t].puts = IF threads[t].alive THEN 0 ELSE 1

C10_Witness ==
    /\ avg_pc = "collect"
    /\ num_thread >= 3
    /\ Len(result_queue) = num_thread
    /\ result_queue[1] = <<>>

\* C11: the response of average() is the same in every interleaving of the
\* workers; the interleaving in which the workers put in launch order answers
\* with the entries of the first chunk, so every interleaving does.
C11_ResponseIndependentOfSchedule ==
    (request.op = "average" /\ avg_pc = "done")
    => payload = [n \in 1..Len(threads[1].record) |->
                    [RollNo |-> threads[1].record[n]["RollNo"],
                     Name |-> threads[1].record[n]["Name"],
                     Average |-> AvgOf(threads[1].record[n])]]

\* the lines of a file whose RollNo is not r, in their order
RECURSIVE LinesWithout(_, _)
LinesWithout(lines, r) ==
    IF lines = <<>> THEN <<>>
    ELSE IF Head(lines)[1] = r THEN LinesWithout(Tail(lines), r)
    ELSE <<Head(lines)>> \o LinesWithout(Tail(lines), r)

\* C12: when remove_data answers 200 for rollno r, the store afterwards holds
\* no record with RollNo r and holds every other record, unchanged and in the
\* same relative order.
C12_RemoveDeletesOnlyRequested ==
    [][(request'.op = "remove" /\ status' = 200)
       => (/\ request'.data["RollNo"] \in StoredRollNos
           /\ \A n \in 1..Len(csv_file') : csv_file'[n][1] # request'.data["RollNo"]
           /\ csv_file' = LinesWithout(csv_file, request'.data["RollNo"]))]_vars

C12_Witness ==
    /\ request.op = "remove"
    /\ status = 200
    /\ Len(csv_file) = 2
    /\ csv_file[1][1] = "1"
    /\ csv_file[2][1] = "3"
    /\ request.data["RollNo"] = "2"

\* C13: when update_data answers 200 for RollNo r, the record with RollNo r
\* has each field of the request replaced by the request's value and its other
\* fields kept, every other record is unchanged, and the number of records,
\* their order and their RollNo values are as before.
C13_UpdateChangesOnlyRequested ==
    [][(request'.op = "update" /\ status' = 200)
       => (/\ request'.data["RollNo"] \in StoredRollNos
           /\ Len(csv_file') = Len(csv_file)
           /\ \A n \in 1..Len(csv_file) :
                /\ csv_file'[n][1] = csv_file[n][1]
                /\ IF csv_file[n][1] = request'.data["RollNo"]
                   THEN \A k \in 1..Len(csv_header) :
                            csv_file'[n][k] =
                                IF csv_header[k] \in DOMAIN request'.data
                                THEN request'.data[csv_header[k]]
                                ELSE csv_file[n][k]
                   ELSE csv_file'[n] = csv_file[n])]_vars

C13_Witness ==
    /\ request.op = "update"
    /\ status = 200
    /\ DOMAIN request.data = {"RollNo", "English"}
    /\ Len(csv_file) = 3
    /\ csv_file[2][1] = request.data["RollNo"]
    /\ csv_file[2][3] = "x"
    /\ csv_file[1][3] = "70"
    /\ csv_file[3][3] = "70"

WriteFailures ==
    {"Failed to write record", "Failed to update record", "Failed to delete record"}

\* C14: whenever insert_data, update_data or remove_data answers 500 because
\* write_csv failed, the store is exactly what it was before the request.
C14_FailedWriteKeepsStore ==
    [][(/\ request'.op \in {"insert", "update", "remove"}
        /\ status' = 500
        /\ message' \in WriteFailures)
       => csv_file' = csv_file]_vars

----------------------------------------------------------------------------
(* Two mutating requests handled concurrently (the server handles each      *)
(* request in its own thread): each handler reads the file, decides, opens  *)
(* the file for writing, which truncates it, and writes its rows when the   *)
(* file is closed.  The field texts of this specification have equal        *)
(* lengths, so that the lines of the file have equal lengths too.           *)

ConcRecords ==
    [RollNo : RollNos, Name : {"Ann"}, English : {"70", "75"},
     Maths : {"80"}, Science : {"91"}]

ConcRequests ==
    {[op |-> "insert", data |-> d] : d \in ConcRecords}
    \cup {[op |-> "update", data |-> Restrict(d, {"RollNo", "English"})] : d \in ConcRecords}
    \cup {[op |-> "remove", data |-> [RollNo |-> r]] : r \in RollNos}

\* a store of n records, RollNo "1" .. "n"
ConcStore(n) == [m \in 1..n |-> <<ToString(m), "Ann", "70", "80", "91">>]

Handler(req) == [pc |-> "read", op |-> req.op, data |-> req.data, row |-> <<>>, status |-> 0]

InitConc ==
    /\ csv_file \in {ConcStore(n) : n \in 0..MaxConcRecords}
    /\ handlers \in [1..2 -> {Handler(req) : req \in ConcRequests}]
    /\ thread_size = 1
    /\ request = [op |-> "none", data |-> [RollNo |-> ""]]
    /\ status = 0
    /\ message = ""
    /\ payload = <<>>
    /\ avg_pc = "idle"
    /\ records = <<>>
    /\ num_thread = 0
    /\ threads = <<>>
    /\ result_queue = <<>>
    /\ joined = 0

\* what a handler does between read_csv() and write_csv(): the rows it is going
\* to write, or the status it answers without writing
Decide(op, data, row) ==
    IF op = "insert"
    THEN IF RollNoExists(row, data["RollNo"])
         THEN [write |-> FALSE, status |-> 400, row |-> row]
         ELSE [write |-> TRUE, status |-> 201, row |-> Append(row, data)]
    ELSE IF op = "remove"
    THEN IF Len(row) = Len(Filter(row, data["RollNo"]))
         THEN [write |-> FALSE, status |-> 404, row |-> row]
         ELSE [write |-> TRUE, status |-> 200, row |-> Filter(row, data["RollNo"])]
    ELSE IF \E n \in 1..Len(row) : Matches(row[n], data)
         THEN [write |-> TRUE, status |-> 200, row |-> UpdateRows(row, data)]
         ELSE [write |-> FALSE, status |-> 404, row |-> row]

\* read_csv() and the handler's decision
handler_read(p) ==
    /\ handlers[p].pc = "read"
    /\ LET d == Decide(handlers[p].op, handlers[p].data, read_csv)
       IN handlers' = [handlers EXCEPT
                          ![p].row = d.row,
                          ![p].pc = IF d.write THEN "open" ELSE "done",
                          ![p].status = IF d.write THEN 0 ELSE d.status]
    /\ UNCHANGED <<csv_file, thread_size, request, status, message, payload, avg_vars>>

\* write_csv: open(csv_file, mode="w") truncates the file
handler_open(p) ==
    /\ handlers[p].pc = "open"
    /\ csv_file' = <<>>
    /\ handlers' = [handlers EXCEPT ![p].pc = "write"]
    /\ UNCHANGED <<thread_size, request, status, message, payload, avg_vars>>

\* bytes written from offset 0 into a file that another writer has filled in
\* the meantime replace its beginning and leave the rest
Overwrite(file, lines) == lines \o SubSeq(file, Len(lines) + 1, Len(file))

SuccessStatus(op) == IF op = "insert" THEN 201 ELSE 200

\* write_csv: the header and the rows reach the file, the handler answers
handler_write(p) ==
    /\ handlers[p].pc = "write"
    /\ LET w == write_csv(handlers[p].row)
       IN /\ csv_file' = Overwrite(csv_file, w.file)
          /\ handlers' = [handlers EXCEPT
                             ![p].pc = "done",
                             ![p].status = IF w.ok THEN SuccessStatus(handlers[p].op) ELSE 500]
    /\ UNCHANGED <<thread_size, request, status, message, payload, avg_vars>>

NextConc ==
    \E p \in 1..2 :
        \/ handler_read(p)
        \/ handler_open(p)
        \/ handler_write(p)

SpecConc == InitConc /\ [][NextConc]_vars

\* C15: when two insert requests with the same RollNo are handled concurrently,
\* at most one of them is answered 201 and the store never holds two records
\* with that RollNo.
C15_ConcurrentInsertsKeepRollNoUnique ==
    (/\ handlers[1].op = "insert"
     /\ handlers[2].op = "insert"
     /\ handlers[1].data["RollNo"] = handlers[2].data["RollNo"])
    => /\ ~(handlers[1].status = 201 /\ handlers[2].status = 201)
       /\ Cardinality({n \in 1..Len(csv_file) :
                          csv_file[n][1] = handlers[1].data["RollNo"]}) <= 1

\* C15, its two halves on their own
C15_AtMostOneCreated ==
    (/\ handlers[1].op = "insert"
     /\ handlers[2].op = "insert"
     /\ handlers[1].data["RollNo"] = handlers[2].data["RollNo"])
    => ~(handlers[1].status = 201 /\ handlers[2].status = 201)

C15_NeverTwoRecords ==
    (/\ handlers[1].op = "insert"
     /\ handlers[2].op = "insert"
     /\ handlers[1].data["RollNo"] = handlers[2].data["RollNo"])
    => Cardinality({n \in 1..Len(csv_file) :
                       csv_file[n][1] = handlers[1].data["RollNo"]}) <= 1

\* the store shows the mutation a handler was asked for
Reflected(h) ==
    IF h.op = "insert" THEN \E n \in 1..Len(csv_file) : csv_file[n] = LineAsRecordInverse(h.data)
    ELSE IF h.op = "remove" THEN h.data["RollNo"] \notin StoredRollNos
    ELSE \E n \in 1..Len(csv_file) :
            /\ csv_file[n][1] = h.data["RollNo"]
            /\ csv_file[n][3] = h.data["English"]

Acknowledged(h) == h.pc = "done" /\ h.status \in {200, 201}

\* C16: when two mutating requests on different RollNo values are handled
\* concurrently and both are answered with success, the final store reflects
\* both mutations.
C16_NoAcknowledgedMutationLost ==
    (/\ handlers[1].data["RollNo"] # handlers[2].data["RollNo"]
     /\ Acknowledged(handlers[1])
     /\ Acknowledged(handlers[2]))
    => Reflected(handlers[1]) /\ Reflected(handlers[2])

----------------------------------------------------------------------------
(* average() under a scheduler that lets the handler and every started      *)
(* worker thread run                                                        *)

SpecAverageFair ==
    /\ InitAverage
    /\ [][NextAverage]_vars
    /\ WF_vars(average)
    /\ WF_vars(start_thread)
    /\ \A t \in 1..(MaxAvgRecords + 1) : WF_vars(calculate_avg(t))
    /\ WF_vars(join_thread)
    /\ WF_vars(collect)

\* average() has returned a 200 response carrying a list, all its workers
\* have terminated and all of them were joined
AverageReturned ==
    /\ avg_pc = "done"
    /\ status = 200
    /\ payload \in Seq([RollNo : STRING, Name : STRING, Average : Int])
    /\ Len(threads) = num_thread
    /\ \A t \in 1..Len(threads) : ~threads[t].alive
    /\ joined = num_thread

\* C17: for every store, the empty one and those whose size is a multiple of
\* the chunk size included, every worker terminates, every join returns and
\* average() eventually returns a 200 response carrying a list.
C17_AverageCompletes == (avg_pc = "idle") ~> AverageReturned

C17_Witness ==
    /\ AverageReturned
    /\ Len(records) = 0

C17_WitnessMultiple ==
    /\ AverageReturned
    /\ Len(records) = 4
    /\ thread_size = 2

\* C18: calculate_avg puts exactly one list, with one entry per record of its
\* chunk in chunk order; the entry of a record with a mark that is not numeric
\* has Average 0, and the entries of the other records are their own.
C18_UnparsableMarkKeepsChunk ==
    /\ threads[1].alive => result_queue = <<>>
    /\ ~threads[1].alive =>
        /\ Len(result_queue) = 1
        /\ threads[1].puts = 1
        /\ Len(result_queue[1]) = Len(records)
        /\ \A n \in 1..Len(records) :
            /\ result_queue[1][n].RollNo = records[n]["RollNo"]
            /\ result_queue[1][n].Name = records[n]["Name"]
            /\ ~NumericMarks(records[n]) => result_queue[1][n].Average = 0
            /\ NumericMarks(records[n]) =>
                 Abs(3 * result_queue[1][n].Average - MarkSum(records[n])) <= 1

C18_Witness ==
    /\ request.op = "calculate_avg"
    /\ ~threads[1].alive
    /\ Len(records) = 2
    /\ ~NumericMarks(records[1])
    /\ NumericMarks(records[2])
    /\ result_queue[1][1].Average = 0
    /\ result_queue[1][2].RollNo = "2"
    /\ result_queue[1][2].Average # 0

\* C19: an insert request that lacks at least one of the five fields is
\* answered 400 'Missing required fields' and leaves the store as it was.
C19_InsertRequiresAllFields ==
    [][(/\ request'.op = "insert"
        /\ \E f \in {"RollNo", "Name", "English", "Maths", "Science"} :
                f \notin DOMAIN request'.data)
       => (/\ status' = 400
           /\ message' = "Missing required fields"
           /\ csv_file' = csv_file)]_vars

C19_Witness ==
    /\ request.op = "insert"
    /\ status = 400
    /\ message = "Missing required fields"
    /\ "Science" \notin DOMAIN request.data
    /\ "RollNo" \in DOMAIN request.data
    /\ csv_file # <<>>
    /\ request.data["RollNo"] \notin StoredRollNos

====
